---- MODULE Spec2Model ----
(***************************************************************************)
(* A model of src/main.py: the Supernote -> Obsidian batch ingestion       *)
(* script.  One behaviour is a sequence of runs of main() over the same    *)
(* filesystem (input directory, ledger file, daily documents, PDFs).       *)
(*                                                                         *)
(* Text (filenames, ledger lines, document contents, recognised markdown)  *)
(* is a sequence of one-character strings, so that the regular expression, *)
(* str.strip, str.lstrip, str.endswith and the `in` substring test are     *)
(* computed the way Python computes them.                                   *)
(*                                                                         *)
(* Fault model: the stages the script guards (date parsing, conversion,    *)
(* the HTTP call, the response shape, the merge I/O, the ledger append and *)
(* the git commands) may each fail.  The ledger file, when present, is     *)
(* readable text (the `except Exception` of load_processed_files, lines    *)
(* 90-91, is not exercised); it may hold blank lines and names of files    *)
(* that are no longer in the directory.  Names hold no line break.  The    *)
(* start-up preconditions hold: the API key file (lines 61-68) and the     *)
(* input directory (lines 133-135) exist.  The directory's entries do not  *)
(* change between the runs of one behaviour: the script never moves or     *)
(* deletes a capture.                                                      *)
(***************************************************************************)
EXTENDS Integers, Sequences, FiniteSets

(***************************************************************************)
(* Bounds of the model.                                                    *)
(***************************************************************************)
\* runs of main() in one behaviour
MaxRuns == 2
\* entries of the input directory
MaxFiles == 2
\* length of a daily document that exists before the first run
MaxDocLen == 3
\* length of a recognised text
MaxTextLen == 2

(***************************************************************************)
(* Characters and strings.                                                 *)
(***************************************************************************)
NL == "\n"

Digits == {"0", "1", "2", "3", "4", "5", "6", "7", "8", "9"}

\* what str.strip() removes
Whitespace == {" ", NL, "\t"}

DigitVal(c) ==
  CASE c = "0" -> 0 [] c = "1" -> 1 [] c = "2" -> 2 [] c = "3" -> 3
    [] c = "4" -> 4 [] c = "5" -> 5 [] c = "6" -> 6 [] c = "7" -> 7
    [] c = "8" -> 8 [] c = "9" -> 9

DigitChar(n) ==
  CASE n = 0 -> "0" [] n = 1 -> "1" [] n = 2 -> "2" [] n = 3 -> "3"
    [] n = 4 -> "4" [] n = 5 -> "5" [] n = 6 -> "6" [] n = 7 -> "7"
    [] n = 8 -> "8" [] n = 9 -> "9"

RECURSIVE ToInt(_)
\* int() of a string of decimal digits
ToInt(s) ==
  IF s = << >> THEN 0
  ELSE 10 * ToInt(SubSeq(s, 1, Len(s) - 1)) + DigitVal(s[Len(s)])

RECURSIVE Pad(_, _)
\* n in decimal, zero padded to w characters (strftime's %Y, %m, %d)
Pad(n, w) ==
  IF w = 0 THEN << >> ELSE Pad(n \div 10, w - 1) \o << DigitChar(n % 10) >>

\* s.startswith(p)
StartsWith(s, p) == Len(p) <= Len(s) /\ SubSeq(s, 1, Len(p)) = p

\* s.endswith(p)
EndsWith(s, p) ==
  Len(p) <= Len(s) /\ SubSeq(s, Len(s) - Len(p) + 1, Len(s)) = p

\* the positions where sub occurs in s
Occurrences(sub, s) ==
  { i \in 1..(Len(s) - Len(sub) + 1) : SubSeq(s, i, i + Len(sub) - 1) = sub }

\* sub in s
Contains(s, sub) == Occurrences(sub, s) # {}

RECURSIVE LStrip(_, _)
\* s.lstrip(chars)
LStrip(s, chars) ==
  IF s # << >> /\ s[1] \in chars THEN LStrip(Tail(s), chars) ELSE s

RECURSIVE RStrip(_, _)
\* s.rstrip(chars)
RStrip(s, chars) ==
  IF s # << >> /\ s[Len(s)] \in chars
  THEN RStrip(SubSeq(s, 1, Len(s) - 1), chars) ELSE s

\* s.strip()
Strip(s) == RStrip(LStrip(s, Whitespace), Whitespace)

\* the sequences over alphabet of length at most n
SeqsUpTo(alphabet, n) == UNION { [1..k -> alphabet] : k \in 0..n }

Range(s) == { s[i] : i \in 1..Len(s) }

\* the orders in which a set can be listed
ListingOrders(S) ==
  { p \in [1..Cardinality(S) -> S] : \A i, j \in 1..Cardinality(S) : p[i] = p[j] => i = j }
(***************************************************************************)
(* Names, dates and paths.                                                 *)
(***************************************************************************)
\* the literal tail of the pattern, r"\.note"
NOTE_EXT == << ".", "n", "o", "t", "e" >>

\* re.match(r"(\d{8})_(\d{6})\.note", name): anchored at the start only
ReMatch(name) ==
  /\ Len(name) >= 20
  /\ \A i \in 1..8 : name[i] \in Digits
  /\ name[9] = "_"
  /\ \A i \in 10..15 : name[i] \in Digits
  /\ SubSeq(name, 16, 20) = NOTE_EXT

\* match.group(1), match.group(2)
DatePart(name) == SubSeq(name, 1, 8)

TimePart(name) == SubSeq(name, 10, 15)

IsLeap(y) == (y % 4 = 0 /\ y % 100 # 0) \/ y % 400 = 0

DaysInMonth(y, m) ==
  IF m = 2 THEN (IF IsLeap(y) THEN 29 ELSE 28)
  ELSE IF m \in {4, 6, 9, 11} THEN 30 ELSE 31

\* the eight digits taken as they are, whatever month and day they give
StrpTime_Lenient(d8) ==
  [ok |-> TRUE, year |-> ToInt(SubSeq(d8, 1, 4)), month |-> ToInt(SubSeq(d8, 5, 6)),
   day |-> ToInt(SubSeq(d8, 7, 8))]

\* datetime.strptime(date_part_str, "%Y%m%d") on eight digits: the date, or
\* ok = FALSE where strptime raises ValueError
StrpTime(d8) ==
  LET y == ToInt(SubSeq(d8, 1, 4))
      m == ToInt(SubSeq(d8, 5, 6))
      d == ToInt(SubSeq(d8, 7, 8))
  IN  [ok |-> y >= 1 /\ m \in 1..12 /\ d >= 1 /\ d <= DaysInMonth(y, m),
       year |-> y, month |-> m, day |-> d]

\* f"{year_str}-{month_str}-{day_str}"
DateStr(name) ==
  LET t == StrpTime(DatePart(name))
  IN  Pad(t.year, 4) \o << "-" >> \o Pad(t.month, 2) \o << "-" >> \o Pad(t.day, 2)

\* obsidian_md_filename
MdFilename(name) == DateStr(name) \o << ".", "m", "d" >>

\* pdf_filename
PdfFilename(name) ==
  DateStr(name) \o << "_", "s", "u", "p", "e", "r", "n", "o", "t", "e", "_" >>
    \o TimePart(name) \o << ".", "p", "d", "f" >>

(***************************************************************************)
(* The entries the input directory is drawn from.                          *)
(***************************************************************************)
Note(d8, t6) == d8 \o << "_" >> \o t6 \o NOTE_EXT

Jan1 == << "2", "0", "2", "4", "0", "1", "0", "1" >>

Jan2 == << "2", "0", "2", "4", "0", "1", "0", "2" >>

Month13 == << "2", "0", "2", "4", "1", "3", "0", "1" >>

Noon == << "1", "2", "0", "0", "0", "0" >>

OnePm == << "1", "3", "0", "0", "0", "0" >>

F1 == Note(Jan1, Noon)

F2 == Note(Jan1, OnePm)

F3 == Note(Jan2, Noon)

\* matches the pattern, but month 13
FBadDate == Note(Month13, Noon)

\* F1 followed by one space
FTrail == F1 \o << " " >>

\* one character before the date
FLead == << "x" >> \o F3

\* seven digits of date
FShort == Tail(F3)

\* a directory of the input directory, named like a capture
DSub == Note(Jan2, OnePm)

Entries ==
  { [name |-> n, isfile |-> TRUE] : n \in {F1, F2, F3, FBadDate, FTrail, FLead, FShort} }
    \cup { [name |-> DSub, isfile |-> FALSE] }

\* the daily documents the entries can address
DocNames ==
  { MdFilename(e.name) : e \in { x \in Entries : ReMatch(x.name) /\ StrpTime(DatePart(x.name)).ok } }

(***************************************************************************)
(* Files: a path holds no file (NoFile) or a file of some content.         *)
(***************************************************************************)
NoFile == << >>

File(text) == << text >>

IsFile(f) == f # NoFile

TextOf(f) == f[1]
(***************************************************************************)
(* The ledger (load_processed_files, add_to_processed_log).                *)
(* The ledger file is the sequence of its lines, without the line breaks.  *)
(***************************************************************************)
\* load_processed_files: the set of the stripped lines
LoadProcessedFiles(lines) == { Strip(lines[i]) : i \in 1..Len(lines) }

\* the log opened with 'w' instead of 'a'
AppendedLog_Truncating(lines, filename) == << filename >>

\* add_to_processed_log, when the write succeeds: f"{filename}\n" appended
AppendedLog(lines, filename) == Append(lines, filename)

(***************************************************************************)
(* The scanner (main, lines 141-150).                                      *)
(***************************************************************************)
\* all_note_files_in_dir, for the order in which os.listdir gave the entries
NoteFilesIn(listing) ==
  LET kept == SelectSeq(listing, LAMBDA e : e.isfile /\ ReMatch(e.name))
  IN  [i \in 1..Len(kept) |-> kept[i].name]

\* the work set without the ledger filter
WorkSet_Unfiltered(all_files, processed) == all_files

\* files_to_process
WorkSet(all_files, processed) == SelectSeq(all_files, LAMBDA f : f \notin processed)

(***************************************************************************)
(* The recognition response (main, lines 229-239).                         *)
(* A response is how deep its nesting goes (0: no candidates, 1: no        *)
(* content, 2: no parts, 3: no text, 4: a text) and the text it holds.     *)
(***************************************************************************)
Responses(ts) ==
  { [depth |-> d, text |-> << >>] : d \in 0..3 } \cup { [depth |-> 4, text |-> t] : t \in ts }

\* the response read without the test
HasText_Unchecked(resp) == TRUE

\* the test of lines 231-234: an empty text is as good as none
HasText(resp) == resp.depth = 4 /\ resp.text # << >>

(***************************************************************************)
(* The merge (main, lines 242-269).                                        *)
(* The section header "## ... Supernote" is written with two characters,   *)
(* both of which also occur alone in documents and recognised texts.       *)
(***************************************************************************)
\* supernote_header_text
HEADER == << "#", "S" >>

\* entry_block = f"\n{markdown_content.strip()}\n"
EntryBlock(markdown) == << NL >> \o Strip(markdown) \o << NL >>

\* entry_block.lstrip('\n'): what is written of the fragment
Written(block) == LStrip(block, {NL})

\* the separator without the test for an empty document
Separator_NoEmptyCase(text) ==
  IF text # << >> /\ ~EndsWith(text, << NL >>) THEN << NL, NL >> ELSE << NL >>

\* separator, lines 257-259
Separator(text) ==
  LET s1 == IF text # << >> /\ ~EndsWith(text, << NL >>) THEN << NL, NL >> ELSE << NL >>
      s2 == IF ~EndsWith(text, << NL, NL >>) /\ EndsWith(text, << NL >>) THEN << NL >> ELSE s1
  IN  IF text = << >> THEN << >> ELSE s2

\* a newline before every appended fragment
Joiner_Always(text) == << NL >>

\* the newline of lines 266-267
Joiner(text) == IF text # << >> /\ ~EndsWith(text, << NL >>) THEN << NL >> ELSE << >>

\* the merge without the test for a header already there
MergeWrites_NoHeaderTest(file, block) ==
  IF ~IsFile(file) THEN << HEADER \o << NL >>, Written(block) >>
  ELSE << Separator(TextOf(file)), HEADER \o << NL >>, Written(block) >>

\* the f.write calls of the merge, in order, for the file as found
MergeWrites(file, block) ==
  IF ~IsFile(file) THEN << HEADER \o << NL >>, Written(block) >>
  ELSE IF ~Contains(TextOf(file), HEADER)
       THEN << Separator(TextOf(file)), HEADER \o << NL >>, Written(block) >>
       ELSE << Joiner(TextOf(file)), Written(block) >>

RECURSIVE Flatten(_)
Flatten(ws) == IF ws = << >> THEN << >> ELSE Head(ws) \o Flatten(Tail(ws))

\* every open with 'w': the writes replace the file
AfterWrites_Truncating(file, ws) == File(Flatten(ws))

\* the text a file holds once the writes ws went to it: 'w' starts from
\* nothing, 'r+' with seek(0, 2) writes at the end
AfterWrites(file, ws) ==
  File((IF IsFile(file) THEN TextOf(file) ELSE << >>) \o Flatten(ws))

\* the newest fragment put first in a document that has the header
Merged_NewestFirst(file, block) ==
  IF IsFile(file) /\ Contains(TextOf(file), HEADER)
  THEN File(Written(block) \o TextOf(file))
  ELSE AfterWrites(file, MergeWrites(file, block))

\* the document after a merge that completed
Merged(file, block) == AfterWrites(file, MergeWrites(file, block))

\* what a merge that raised leaves on disk: the file as found when it could not
\* be opened (k = -1), else the file opened and only the first k writes in it
MergeLeftover(file, block, k) ==
  IF k < 0 THEN file ELSE AfterWrites(file, SubSeq(MergeWrites(file, block), 1, k))

\* the message printed by the merge, by its line in main.py
MergeMessage(file) ==
  IF ~IsFile(file) THEN "created"
  ELSE IF ~Contains(TextOf(file), HEADER) THEN "added" ELSE "appended"
(***************************************************************************)
(* State.                                                                  *)
(***************************************************************************)
VARIABLES
  \* the filesystem, which outlives a run
  dir,        \* the entries of SUPERNOTE_INPUT_DIR
  ledger,     \* the lines of PROCESSED_LOG_FILE
  docs,       \* the daily documents of OBSIDIAN_OUTPUT_DIR, by file name
  pdfs,       \* the file names in the attachments directory
  \* the environment
  texts,      \* the texts the recognition service may answer with
  runs_left,  \* how many more times the script is started
  \* main(): where it is, and its local variables
  pc,
  already_processed_files,
  all_note_files_in_dir,
  files_to_process,
  idx,        \* the position of `filename` in files_to_process
  processed_dates_for_commit,
  any_file_processed_successfully_this_run,
  newly_processed_count,
  obsidian_md_filename,
  pdf_filename,
  response_json,
  markdown_content,
  entry_block,
  content,
  separator,
  printed,    \* the last message of the item loop, by kind
  git_calls,  \* the git commands run, in order
  commit_message,
  pushed,
  summary,    \* the five counts of lines 327-331
  exit_code,
  \* history, read by the properties only
  h_merges,      \* per file name, the merges that completed, over all runs
  h_lastFrag,    \* per document, what the last completed merge wrote of its fragment
  h_failedNow,   \* the file names of which a stage failed in this run
  h_failedPrev,  \* the same for the run before
  h_appendFailed, \* whether a ledger append ever failed
  h_attempted,   \* the file names the loop body was entered for in this run, in order
  h_docsAtStart, \* the daily documents as they were when this run started
  h_ledgerAtStart \* the lines of the ledger file when this run started

fsVars == << dir, ledger, docs, pdfs >>

envVars == << texts, runs_left >>

scanVars == << already_processed_files, all_note_files_in_dir, files_to_process >>

tallyVars ==
  << processed_dates_for_commit, any_file_processed_successfully_this_run,
     newly_processed_count >>

itemVars ==
  << obsidian_md_filename, pdf_filename, response_json, markdown_content, entry_block,
     content, separator >>

gitVars == << git_calls, commit_message, pushed >>

histVars ==
  << h_merges, h_lastFrag, h_failedNow, h_failedPrev, h_appendFailed, h_attempted,
     h_docsAtStart, h_ledgerAtStart >>

vars ==
  << fsVars, envVars, pc, scanVars, idx, tallyVars, itemVars, printed, gitVars,
     summary, exit_code, histVars >>

\* the loop variable of line 162
filename == files_to_process[idx]

EntryNames == { e.name : e \in Entries }

\* a directory holds each name once
Directories ==
  { d \in SUBSET Entries :
      /\ Cardinality(d) <= MaxFiles
      /\ \A a, b \in d : a.name = b.name => a = b }

\* the texts of the pipeline's runs: padded with a blank line and a space,
\* blank, and empty
PipelineTexts == { << NL, " ", "a" >>, << " ", NL >>, << >> }

\* a document of one heading line and no section header
TitleDoc == << "#", "#", NL >>

\* before the first run: no PDFs
InitFrom(ledgers, directories, documents, answers, runs) ==
  /\ dir \in directories
  /\ ledger \in ledgers
  /\ docs \in documents
  /\ pdfs = {}
  /\ texts = answers
  /\ runs_left = runs
  /\ pc = "idle"
  /\ already_processed_files = {}
  /\ all_note_files_in_dir = << >>
  /\ files_to_process = << >>
  /\ idx = 0
  /\ processed_dates_for_commit = {}
  /\ any_file_processed_successfully_this_run = FALSE
  /\ newly_processed_count = 0
  /\ obsidian_md_filename = << >>
  /\ pdf_filename = << >>
  /\ response_json = NoFile
  /\ markdown_content = << >>
  /\ entry_block = << >>
  /\ content = << >>
  /\ separator = << >>
  /\ printed = "none"
  /\ git_calls = << >>
  /\ commit_message = NoFile
  /\ pushed = FALSE
  /\ summary = NoFile
  /\ exit_code = -1
  /\ h_merges = [n \in EntryNames |-> 0]
  /\ h_lastFrag = [d \in DocNames |-> NoFile]
  /\ h_failedNow = {}
  /\ h_failedPrev = {}
  /\ h_appendFailed = FALSE
  /\ h_attempted = << >>
  /\ h_docsAtStart = docs
  /\ h_ledgerAtStart = ledger

\* before the first run: no ledger, no PDFs
InitWith(directories, documents, answers, runs) ==
  InitFrom({<< >>}, directories, documents, answers, runs)

Init ==
  InitWith(Directories, [DocNames -> {NoFile, File(TitleDoc)}], PipelineTexts, MaxRuns)
(***************************************************************************)
(* main(), lines 131-160: load the ledger, scan, compute the work set.     *)
(* Every run is a new process: the locals start unset.                     *)
(***************************************************************************)
StartRun ==
  /\ pc \in {"idle", "exited"}
  /\ runs_left > 0
  /\ runs_left' = runs_left - 1
  /\ \E listing \in ListingOrders(dir) :
       LET processed == LoadProcessedFiles(ledger)
           found == NoteFilesIn(listing)
           work == WorkSet(found, processed)
       IN  /\ already_processed_files' = processed
           /\ all_note_files_in_dir' = found
           /\ files_to_process' = work
           /\ IF work = << >>
              THEN pc' = "exited" /\ exit_code' = 0 /\ idx' = 0
              ELSE pc' = "L164" /\ exit_code' = -1 /\ idx' = 1
  /\ processed_dates_for_commit' = {}
  /\ any_file_processed_successfully_this_run' = FALSE
  /\ newly_processed_count' = 0
  /\ obsidian_md_filename' = << >>
  /\ pdf_filename' = << >>
  /\ response_json' = NoFile
  /\ markdown_content' = << >>
  /\ entry_block' = << >>
  /\ content' = << >>
  /\ separator' = << >>
  /\ printed' = "none"
  /\ git_calls' = << >>
  /\ commit_message' = NoFile
  /\ pushed' = FALSE
  /\ summary' = NoFile
  /\ h_failedPrev' = h_failedNow
  /\ h_failedNow' = {}
  /\ h_attempted' = << >>
  /\ h_docsAtStart' = docs
  /\ h_ledgerAtStart' = ledger
  /\ UNCHANGED << fsVars, texts, h_merges, h_lastFrag, h_appendFailed >>

\* the for loop of line 162 goes to its next item, or ends
NextItem ==
  IF idx < Len(files_to_process)
  THEN idx' = idx + 1 /\ pc' = "L164"
  ELSE idx' = idx /\ pc' = "L301"

\* the exception ends the loop, as a break would
ItemFailed_Break(kind) ==
  /\ printed' = kind
  /\ h_failedNow' = h_failedNow \cup {filename}
  /\ idx' = idx
  /\ pc' = "L301"

\* an except clause of lines 284-299 took the item: message, next item
ItemFailed(kind) ==
  /\ printed' = kind
  /\ h_failedNow' = h_failedNow \cup {filename}
  /\ NextItem

(***************************************************************************)
(* Lines 164-186: the names of the item's document and PDF.                *)
(***************************************************************************)
Prepare ==
  /\ pc = "L164"
  /\ h_attempted' = Append(h_attempted, filename)
  /\ IF ~ReMatch(filename)
     THEN \* line 168: continue
          /\ NextItem
          /\ UNCHANGED << printed, h_failedNow, obsidian_md_filename, pdf_filename >>
     ELSE IF ~StrpTime(DatePart(filename)).ok
     THEN \* strptime raises ValueError: line 294
          /\ ItemFailed("parse_error")
          /\ UNCHANGED << obsidian_md_filename, pdf_filename >>
     ELSE /\ obsidian_md_filename' = MdFilename(filename)
          /\ pdf_filename' = PdfFilename(filename)
          /\ pc' = "L188"
          /\ UNCHANGED << idx, printed, h_failedNow >>
  /\ UNCHANGED << fsVars, envVars, scanVars, tallyVars, response_json, markdown_content,
                  entry_block, content, separator, gitVars, summary, exit_code, h_merges,
                  h_lastFrag, h_failedPrev, h_docsAtStart, h_ledgerAtStart, h_appendFailed >>

(***************************************************************************)
(* Lines 188-193: the converter.                                           *)
(***************************************************************************)
ConvertOk ==
  /\ pc = "L188"
  /\ pdfs' = pdfs \cup {pdf_filename}
  /\ pc' = "L195"
  /\ UNCHANGED << dir, ledger, docs, envVars, scanVars, idx, tallyVars, itemVars, printed,
                  gitVars, summary, exit_code, histVars >>

\* CalledProcessError: line 284
ConvertFail ==
  /\ pc = "L188"
  /\ ItemFailed("conversion_error")
  /\ UNCHANGED << fsVars, envVars, scanVars, tallyVars, itemVars, gitVars, summary,
                  exit_code, h_merges, h_lastFrag, h_failedPrev, h_docsAtStart, h_ledgerAtStart, h_appendFailed, h_attempted >>

(***************************************************************************)
(* Lines 195-240: the recognition call.                                    *)
(***************************************************************************)
\* requests raises (timeout, connection, non-2xx status): line 286
RecognizeTransportFail ==
  /\ pc = "L195"
  /\ ItemFailed("http_error")
  /\ UNCHANGED << fsVars, envVars, scanVars, tallyVars, itemVars, gitVars, summary,
                  exit_code, h_merges, h_lastFrag, h_failedPrev, h_docsAtStart, h_ledgerAtStart, h_appendFailed, h_attempted >>

\* a response arrives: its text is taken, or ValueError is raised (line 294)
RecognizeAnswer ==
  /\ pc = "L195"
  /\ \E resp \in Responses(texts) :
       /\ response_json' = File(resp)
       /\ IF HasText(resp)
          THEN /\ markdown_content' = resp.text
               /\ pc' = "L242"
               /\ UNCHANGED << idx, printed, h_failedNow >>
          ELSE /\ ItemFailed("parse_error")
               /\ UNCHANGED markdown_content
  /\ UNCHANGED << fsVars, envVars, scanVars, tallyVars, obsidian_md_filename, pdf_filename,
                  entry_block, content, separator, gitVars, summary, exit_code, h_merges,
                  h_lastFrag, h_failedPrev, h_docsAtStart, h_ledgerAtStart, h_appendFailed, h_attempted >>

(***************************************************************************)
(* Lines 242-269: the merge into the daily document.                       *)
(***************************************************************************)
\* the locals the merge sets once the file is open: content (line 254) when
\* the file existed, separator (lines 257-259) when it held no header
MergeLocals(file) ==
  /\ content' = IF IsFile(file) THEN TextOf(file) ELSE content
  /\ separator' = IF IsFile(file) /\ ~Contains(TextOf(file), HEADER)
                  THEN Separator(TextOf(file)) ELSE separator

\* the merge left out: the loop goes from the recognition to the ledger append
MergeOk_Skipped ==
  /\ pc = "L242"
  /\ pc' = "L272"
  /\ UNCHANGED << fsVars, envVars, scanVars, idx, tallyVars, itemVars, printed, gitVars,
                  summary, exit_code, histVars >>

MergeOk ==
  /\ pc = "L242"
  /\ LET file == docs[obsidian_md_filename]
         block == EntryBlock(markdown_content)
     IN  /\ entry_block' = block
         /\ MergeLocals(file)
         /\ docs' = [docs EXCEPT ![obsidian_md_filename] = Merged(file, block)]
         /\ printed' = MergeMessage(file)
         /\ h_lastFrag' = [h_lastFrag EXCEPT ![obsidian_md_filename] = File(Written(block))]
  /\ h_merges' = [h_merges EXCEPT ![filename] = @ + 1]
  /\ pc' = "L272"
  /\ UNCHANGED << dir, ledger, pdfs, envVars, scanVars, idx, tallyVars, obsidian_md_filename,
                  pdf_filename, response_json, markdown_content, gitVars, summary, exit_code,
                  h_failedNow, h_failedPrev, h_docsAtStart, h_ledgerAtStart, h_appendFailed, h_attempted >>

\* the merge raises (OSError from makedirs, open, read or write): line 296
MergeFail ==
  /\ pc = "L242"
  /\ LET file == docs[obsidian_md_filename]
         block == EntryBlock(markdown_content)
     IN  /\ entry_block' = block
         /\ \E k \in (-1)..(Len(MergeWrites(file, block)) - 1) :
              /\ docs' = [docs EXCEPT ![obsidian_md_filename] = MergeLeftover(file, block, k)]
              /\ IF k < 0 THEN UNCHANGED << content, separator >> ELSE MergeLocals(file)
              /\ h_lastFrag' = IF MergeLeftover(file, block, k) = file THEN h_lastFrag
                               ELSE [h_lastFrag EXCEPT ![obsidian_md_filename] = NoFile]
  /\ ItemFailed("unexpected_error")
  /\ UNCHANGED << dir, ledger, pdfs, envVars, scanVars, tallyVars, obsidian_md_filename,
                  pdf_filename, response_json, markdown_content, gitVars, summary, exit_code,
                  h_merges, h_failedPrev, h_docsAtStart, h_ledgerAtStart, h_appendFailed, h_attempted >>

(***************************************************************************)
(* Lines 271-282: the ledger append and the run's tallies.                 *)
(***************************************************************************)
\* the set started anew for every item
TouchedAfter_Replacing(dates, name) == {DateStr(name)}

\* processed_dates_for_commit.add(...), line 279
TouchedAfter(dates, name) == dates \cup {DateStr(name)}

LedgerRecord ==
  /\ pc = "L272"
  /\ \E written \in BOOLEAN :
       IF written
       THEN /\ ledger' = AppendedLog(ledger, filename)
            /\ already_processed_files' = already_processed_files \cup {filename}
            /\ UNCHANGED h_appendFailed
       ELSE /\ h_appendFailed' = TRUE
            /\ UNCHANGED << ledger, already_processed_files >>
  /\ processed_dates_for_commit' = TouchedAfter(processed_dates_for_commit, filename)
  /\ any_file_processed_successfully_this_run' = TRUE
  /\ newly_processed_count' = newly_processed_count + 1
  /\ printed' = "processed"
  /\ NextItem
  /\ UNCHANGED << dir, docs, pdfs, envVars, all_note_files_in_dir, files_to_process,
                  itemVars, gitVars, summary, exit_code, h_merges, h_lastFrag, h_failedNow,
                  h_failedPrev, h_docsAtStart, h_ledgerAtStart, h_attempted >>

(***************************************************************************)
(* Lines 301-324: git.  How far the commands get: the directory is no      *)
(* repository, add fails, nothing is staged, commit fails, push fails, or  *)
(* all succeed.                                                            *)
(***************************************************************************)
\* the order of two characters of a date string in Python's comparison of str
CharOrd(c) == IF c = "-" THEN 0 ELSE 1 + DigitVal(c)

RECURSIVE StrLess(_, _)
\* a < b for two str
StrLess(a, b) ==
  IF b = << >> THEN FALSE
  ELSE IF a = << >> THEN TRUE
  ELSE IF a[1] # b[1] THEN CharOrd(a[1]) < CharOrd(b[1])
  ELSE StrLess(Tail(a), Tail(b))

\* sorted(list(dates))
SortedDates(dates) ==
  CHOOSE p \in ListingOrders(dates) :
    \A i, j \in 1..Len(p) : i < j => StrLess(p[i], p[j])

RECURSIVE Join(_, _)
\* sep.join(parts)
Join(sep, parts) ==
  IF parts = << >> THEN << >>
  ELSE IF Len(parts) = 1 THEN parts[1]
  ELSE parts[1] \o sep \o Join(sep, Tail(parts))

\* the text before the dates in the commit message, as one token
COMMIT_PREFIX == << "Update daily notes from Supernote for dates: " >>

\* the message naming the first date only
CommitMessage_FirstDate(dates) == COMMIT_PREFIX \o SortedDates(dates)[1]

\* commit_message, line 303
CommitMessage(dates) == COMMIT_PREFIX \o Join(<< ",", " " >>, SortedDates(dates))

GitOutcomes == {"no_repo", "add_failed", "nothing_staged", "commit_failed", "push_failed", "pushed"}

GitCalls(outcome) ==
  CASE outcome = "no_repo" -> << "rev-parse" >>
    [] outcome = "add_failed" -> << "rev-parse", "add" >>
    [] outcome = "nothing_staged" -> << "rev-parse", "add", "status" >>
    [] outcome = "commit_failed" -> << "rev-parse", "add", "status", "commit" >>
    [] OTHER -> << "rev-parse", "add", "status", "commit", "push" >>

Commit ==
  /\ pc = "L301"
  /\ IF processed_dates_for_commit # {}
     THEN \E outcome \in GitOutcomes :
            /\ git_calls' = GitCalls(outcome)
            /\ commit_message' = IF outcome \in {"push_failed", "pushed"}
                                 THEN File(CommitMessage(processed_dates_for_commit))
                                 ELSE NoFile
            /\ pushed' = (outcome = "pushed")
     ELSE UNCHANGED gitVars
  /\ pc' = "L326"
  /\ UNCHANGED << fsVars, envVars, scanVars, idx, tallyVars, itemVars, printed, summary,
                  exit_code, histVars >>

(***************************************************************************)
(* Lines 326-341: the summary and the exit code.                           *)
(***************************************************************************)
\* the counts printed by lines 327-331
SummaryCounts(found, processed, work, newly) ==
  [found |-> Len(found),
   already |-> Cardinality(processed) - newly,
   attempted |-> Len(work),
   succeeded |-> newly,
   failed |-> Len(work) - newly]

\* every run a success
ExitCode_AlwaysZero(any_success, work) == 0

\* lines 333-341
ExitCode(any_success, work) == IF ~any_success /\ work # << >> THEN 1 ELSE 0

Summary ==
  /\ pc = "L326"
  /\ summary' = File(SummaryCounts(all_note_files_in_dir, already_processed_files,
                                   files_to_process, newly_processed_count))
  /\ exit_code' = ExitCode(any_file_processed_successfully_this_run, files_to_process)
  /\ pc' = "exited"
  /\ UNCHANGED << fsVars, envVars, scanVars, idx, tallyVars, itemVars, printed, gitVars,
                  histVars >>

Next ==
  \/ StartRun
  \/ Prepare
  \/ ConvertOk
  \/ ConvertFail
  \/ RecognizeTransportFail
  \/ RecognizeAnswer
  \/ MergeOk
  \/ MergeFail
  \/ LedgerRecord
  \/ Commit
  \/ Summary

Spec == Init /\ [][Next]_vars
(***************************************************************************)
(* The merge over every small document and every small recognised text:    *)
(* the item loop (lines 131-299) of one run over two captures of the same  *)
(* day.                                                                    *)
(***************************************************************************)
DocAlphabet == { "#", "S", NL }

TextAlphabet == { "#", "S", NL, " " }

Jan1Doc == MdFilename(F1)

SameDayDirectory == { [name |-> F1, isfile |-> TRUE], [name |-> F2, isfile |-> TRUE] }

SmallDocuments ==
  { d \in [DocNames -> {NoFile} \cup { File(t) : t \in SeqsUpTo(DocAlphabet, MaxDocLen) }] :
      \A n \in DocNames \ {Jan1Doc} : d[n] = NoFile }

InitMerge ==
  InitWith({SameDayDirectory}, SmallDocuments, SeqsUpTo(TextAlphabet, MaxTextLen), 1)

NextMerge ==
  \/ StartRun
  \/ Prepare
  \/ ConvertOk
  \/ ConvertFail
  \/ RecognizeTransportFail
  \/ RecognizeAnswer
  \/ MergeOk
  \/ MergeFail
  \/ LedgerRecord

SpecMerge == InitMerge /\ [][NextMerge]_vars
(***************************************************************************)
(* Whole runs over a ledger file that earlier runs, or the user, left      *)
(* behind: no ledger, a blank line, the name of a capture (which the       *)
(* directory may or may not still hold), and both.  No daily document      *)
(* exists and the recognition service knows one text.                      *)
(*                                                                         *)
(* A started script runs on: the interpreter executes the next statement,  *)
(* the recognition call returns or times out (timeout=180, line 227), and  *)
(* the converter and git, which are called without a timeout, are taken to *)
(* return.                                                                 *)
(***************************************************************************)
BLANK == << >>

Ledgers == { << >>, << BLANK >>, << F3 >>, << F3, BLANK >> }

RunTexts == { << "a" >> }

InitRun == InitFrom(Ledgers, Directories, [DocNames -> {NoFile}], RunTexts, 1)

\* the steps main() takes once it is started
RunSteps ==
  \/ Prepare
  \/ ConvertOk
  \/ ConvertFail
  \/ RecognizeTransportFail
  \/ RecognizeAnswer
  \/ MergeOk
  \/ MergeFail
  \/ LedgerRecord
  \/ Commit
  \/ Summary

SpecRun == InitRun /\ [][Next]_vars /\ WF_vars(RunSteps)
(***************************************************************************)
(* Properties.                                                             *)
(***************************************************************************)
\* the names in the ledger file, as written
LedgerLines == Range(ledger)

\* the spec's capture pattern, ^\d{8}_\d{6}\.note$: nothing after the extension
FullMatch(name) == ReMatch(name) /\ Len(name) = 20

\* how often the section header occurs in a file
HeaderCount(file) == IF IsFile(file) THEN Cardinality(Occurrences(HEADER, TextOf(file))) ELSE 0

\* a step of the item loop is about to convert, recognise or merge `filename`
InPipeline == pc \in {"L188", "L195", "L242"}

\* the merge of `filename` has just completed
JustMerged == pc = "L272"

\* the document of the item at hand
TargetDoc == docs[obsidian_md_filename]

\* the run is past its item loop
LoopDone == pc \in {"L301", "L326"} \/ (pc = "exited" /\ summary # NoFile)

\* the run has printed its summary and exited
Summarised == pc = "exited" /\ summary # NoFile

\* the items of this run that went through every stage up to the tallies of
\* lines 279-281, and those of which a stage failed
SucceededNow == { n \in Range(h_attempted) : n \notin h_failedNow }

FailedNow == { n \in Range(h_attempted) : n \in h_failedNow }

\* the name of the daily document of a date
DocOf(date) == date \o << ".", "m", "d" >>

\* the daily documents that are not as they were when the run started
ModifiedNow == { d \in DocNames : docs[d] # h_docsAtStart[d] }

(* C1 as stated: between items, a name is in the ledger file if and only   *)
(* if its convert, recognise and merge completed in some run.              *)
C1_LedgerIffCompleted ==
  ~JustMerged => \A n \in EntryNames : (n \in LedgerLines <=> h_merges[n] > 0)

(* C1 amended: the ledger file only grows, and only by the name of the     *)
(* item whose merge has just completed in this run; every ledgered name    *)
(* has a completed merge; and when the append after a completed merge      *)
(* succeeds the name is in the ledger file.                                *)
C1_LedgerAppendOnly ==
  [][ /\ StartsWith(ledger', ledger)
      /\ ledger' # ledger =>
           /\ JustMerged
           /\ ledger' = Append(ledger, filename)
      /\ \A n \in Range(ledger') : h_merges'[n] > 0
      /\ (JustMerged /\ filename \in already_processed_files') => filename \in Range(ledger')
    ]_vars

\* a ledger append failed, and an append after it succeeded
C1_Witness == h_appendFailed /\ Len(ledger) >= 2 /\ ~JustMerged

(* C2: while no ledger append has failed, no name has its fragment merged  *)
(* more than once, and a name in the ledger file is not converted,         *)
(* recognised or merged again.                                             *)
C2_AtMostOnce ==
  ~h_appendFailed =>
    /\ \A n \in EntryNames : h_merges[n] <= 1
    /\ InPipeline => filename \notin LedgerLines

C4_OnlyFullMatches ==
  /\ \A i \in 1..Len(files_to_process) : FullMatch(files_to_process[i])
  /\ (InPipeline \/ JustMerged) => FullMatch(filename)
(* C5 as stated: after a completed merge into a document that held the     *)
(* header at most once, the header occurs exactly once, whatever the       *)
(* fragment.                                                               *)
C5_HeaderOnce ==
  [][ (pc = "L242" /\ pc' = "L272" /\ HeaderCount(TargetDoc) <= 1)
        => HeaderCount(TargetDoc') = 1 ]_vars

(* C5 amended: when the document held the header at most once and the      *)
(* recognised text does not itself contain the header, the header occurs   *)
(* exactly once after a completed merge (through any of the three paths)   *)
(* and at most once after a merge that failed part-way.                    *)
C5_HeaderOnceAmended ==
  [][ (pc = "L242" /\ HeaderCount(TargetDoc) <= 1 /\ ~Contains(markdown_content, HEADER))
        => /\ HeaderCount(TargetDoc') <= 1
           /\ pc' = "L272" => HeaderCount(TargetDoc') = 1 ]_vars

\* a header has just been added to a document that had text and no header
C5_Witness ==
  /\ JustMerged
  /\ printed = "added"
  /\ content # << >>
  /\ ~Contains(markdown_content, HEADER)
  /\ HeaderCount(TargetDoc) = 1

C7_AppendOnly ==
  [][ \A d \in DocNames :
        IsFile(docs[d]) => IsFile(docs'[d]) /\ StartsWith(TextOf(docs'[d]), TextOf(docs[d])) ]_vars

\* a merge has just extended a document that had content
C7_Witness ==
  /\ JustMerged
  /\ printed \in {"added", "appended"}
  /\ content # << >>
  /\ Len(TextOf(TargetDoc)) > Len(content)

(* C8 as stated: in the path "present, header absent" the separator is     *)
(* empty for empty content, one newline for content ending with exactly    *)
(* one newline, two newlines otherwise.                                    *)
C8_SeparatorAsStated ==
  (JustMerged /\ printed = "added") =>
    separator = IF content = << >> THEN << >>
                ELSE IF EndsWith(content, << NL >>) /\ ~EndsWith(content, << NL, NL >>)
                     THEN << NL >> ELSE << NL, NL >>

(* C8 amended: the separator is empty for empty content, two newlines for  *)
(* content that does not end with a newline, one newline for content that  *)
(* ends with one or more newlines; the document is then the former         *)
(* content, the separator, the header line and the stripped text with its  *)
(* newline.  For a document of one heading line the header follows one     *)
(* blank line.                                                             *)
C8_SeparatorAmended ==
  (JustMerged /\ printed = "added") =>
    /\ separator = IF content = << >> THEN << >>
                   ELSE IF EndsWith(content, << NL >>) THEN << NL >> ELSE << NL, NL >>
    /\ TextOf(TargetDoc) =
         content \o separator \o HEADER \o << NL >> \o LStrip(entry_block, {NL})
    /\ entry_block = << NL >> \o Strip(markdown_content) \o << NL >>
    /\ content = TitleDoc =>
         TextOf(TargetDoc) = TitleDoc \o << NL >> \o HEADER \o << NL >> \o LStrip(entry_block, {NL})

\* a header was added after content ending with two newlines
C8_Witness ==
  /\ JustMerged
  /\ printed = "added"
  /\ EndsWith(content, << NL, NL >>)
  /\ separator = << NL >>

(* C9: in the path "present, header present" the document becomes the      *)
(* former content, one newline if that did not end with one, and the       *)
(* stripped text with its newline; no two newlines in a row arise where    *)
(* the new text joins the old.                                             *)
C9_AppendAtEnd ==
  (JustMerged /\ printed = "appended") =>
    LET inserted == IF EndsWith(content, << NL >>) THEN << >> ELSE << NL >>
        text == TextOf(TargetDoc)
    IN  /\ text = content \o inserted \o LStrip(entry_block, {NL})
        /\ \A p \in Len(content)..(Len(content) + Len(inserted)) :
             (p >= 1 /\ p + 1 <= Len(text)) => ~(text[p] = NL /\ text[p + 1] = NL)

\* a fragment was appended to a section that did not end with a newline
C9_Witness ==
  /\ JustMerged
  /\ printed = "appended"
  /\ ~EndsWith(content, << NL >>)
  /\ Len(TextOf(TargetDoc)) > Len(content) + 1

(* C10: a name of which a stage failed is not added to the processed set   *)
(* in that run, and is in the work set of the next run.                    *)
C10_FailedRetried ==
  /\ \A n \in h_failedNow : n \notin already_processed_files
  /\ pc # "idle" => \A n \in h_failedPrev : n \in Range(files_to_process)

(* C11, the attempts: the loop body is entered for the names of the work   *)
(* set in scan order, each once; past the loop every name of the work set  *)
(* has been attempted, whichever of them failed.                           *)
C11_InOrder ==
  /\ Len(h_attempted) <= Len(files_to_process)
  /\ h_attempted = SubSeq(files_to_process, 1, Len(h_attempted))
  /\ \A i, j \in 1..Len(h_attempted) : h_attempted[i] = h_attempted[j] => i = j
  /\ pc = "L164" => Len(h_attempted) = idx - 1
  /\ (InPipeline \/ JustMerged) => Len(h_attempted) = idx
  /\ LoopDone => h_attempted = files_to_process

(* C11 as stated: the attempts are in order and complete, and every run    *)
(* that ends has gone through the commit step and the summary.             *)
C11_EveryRunSummarised ==
  /\ C11_InOrder
  /\ pc = "exited" => Summarised

(* C11 amended: the attempts are in order and complete, and a run whose    *)
(* work set is not empty goes from each item to the commit step, from      *)
(* there to the summary, and from there to its exit, whatever stage of     *)
(* whatever item fails.                                                    *)
C11_NoEarlyTermination ==
  /\ [](C11_InOrder /\ (pc = "exited" /\ files_to_process # << >> => Summarised))
  /\ (pc \in {"L164", "L188", "L195", "L242", "L272"}) ~> (pc = "L301")
  /\ (pc = "L301") ~> (pc = "L326")
  /\ (pc = "L326") ~> Summarised

\* a run of two items has printed its summary after its first item failed
\* and its second did not
C11_Witness ==
  /\ Summarised
  /\ Len(files_to_process) = 2
  /\ h_attempted = files_to_process
  /\ files_to_process[1] \in h_failedNow
  /\ files_to_process[2] \notin h_failedNow

(* C12: a step on which a response without the nested text field (missing  *)
(* at any of the four levels) arrives fails the item with the message of   *)
(* the response-shape handler and does not go on to the merge; and no step *)
(* of an item before its merge (naming, conversion, recognition, whether   *)
(* it fails or not) changes a daily document, the ledger file or the       *)
(* processed set.                                                          *)
C12_FailureLeavesUntouched ==
  [][ /\ (pc = "L195" /\ printed' # "http_error" /\ TextOf(response_json').depth < 4)
        => /\ printed' = "parse_error"
           /\ filename \in h_failedNow'
           /\ pc' \in {"L164", "L301"}
           /\ markdown_content' = markdown_content
      /\ (pc \in {"L164", "L188", "L195"})
        => /\ docs' = docs
           /\ ledger' = ledger
           /\ already_processed_files' = already_processed_files
           /\ processed_dates_for_commit' = processed_dates_for_commit
      /\ (pc \in {"L188", "L195"} /\ pc' \in {"L164", "L301"})
        => /\ printed' \in {"conversion_error", "http_error", "parse_error"}
           /\ filename \in h_failedNow'
    ]_vars

\* the last item of a run got a response without candidates, after its PDF
\* was written; its daily document is the one that was there before the run
C12_Witness ==
  /\ pc = "L301"
  /\ printed = "parse_error"
  /\ response_json # NoFile
  /\ TextOf(response_json).depth = 0
  /\ pdf_filename \in pdfs
  /\ TargetDoc = File(TitleDoc)
  /\ filename \in h_failedNow
  /\ StrpTime(DatePart(filename)).ok

(* C13: on the step where the ledger append fails after a completed merge, *)
(* the daily documents stay as the merge left them (the fragment is at the *)
(* end of the item's document), and the name is neither in the ledger file *)
(* nor in the processed set; and a run that starts while a name is merged  *)
(* but not in the ledger file has that name in its work set.               *)
C13_AppendFailureKeepsMerge ==
  [][ /\ (JustMerged /\ ledger' = ledger)
        => /\ docs' = docs
           /\ EndsWith(TextOf(TargetDoc'), LStrip(entry_block, {NL}))
           /\ filename \notin Range(ledger')
           /\ filename \notin already_processed_files'
      /\ runs_left' # runs_left
        => \A e \in dir :
             (e.isfile /\ h_merges[e.name] > 0 /\ e.name \notin Range(ledger))
               => e.name \in Range(files_to_process')
    ]_vars

(* C14: the ledger file changes only by the append of the name of the item *)
(* at hand, and only when, in this run, that item's PDF has been written,  *)
(* the response held the text now in markdown_content, and the merge has   *)
(* put the stripped text with its newline at the end of the item's daily   *)
(* document; and every name in the ledger file has a completed merge, an   *)
(* existing daily document and its PDF.                                    *)
C14_LedgerAfterMerge ==
  [][ /\ ledger' # ledger
        => /\ JustMerged
           /\ ledger' = Append(ledger, filename)
           /\ filename \in Range(h_attempted)
           /\ filename \notin h_failedNow
           /\ pdf_filename = PdfFilename(filename)
           /\ pdf_filename \in pdfs
           /\ response_json # NoFile
           /\ TextOf(response_json).depth = 4
           /\ TextOf(response_json).text = markdown_content
           /\ markdown_content # << >>
           /\ obsidian_md_filename = MdFilename(filename)
           /\ IsFile(TargetDoc)
           /\ EndsWith(TextOf(TargetDoc), LStrip(<< NL >> \o Strip(markdown_content) \o << NL >>, {NL}))
           /\ h_merges[filename] > 0
      /\ \A n \in Range(ledger') :
           /\ h_merges'[n] > 0
           /\ IsFile(docs'[MdFilename(n)])
           /\ PdfFilename(n) \in pdfs'
    ]_vars

\* the last item of a run has been ledgered after a merge of a text that is
\* not blank
C14_Witness ==
  /\ pc = "L301"
  /\ printed = "processed"
  /\ ledger # << >>
  /\ ledger[Len(ledger)] = filename
  /\ Strip(markdown_content) # << >>
  /\ EndsWith(TextOf(TargetDoc), Strip(markdown_content) \o << NL >>)

(* C15: a run that has exited has exit code 1 if and only if its work set  *)
(* was not empty and none of its items succeeded; the code is 0 for an     *)
(* empty work set, when every item succeeded, and when some succeeded and  *)
(* some failed.                                                            *)
C15_ExitCode ==
  pc = "exited" =>
    /\ exit_code \in {0, 1}
    /\ exit_code = 1 <=> (files_to_process # << >> /\ SucceededNow = {})
    /\ files_to_process = << >> => exit_code = 0
    /\ (files_to_process # << >> /\ FailedNow = {}) => exit_code = 0
    /\ (SucceededNow # {} /\ FailedNow # {}) => exit_code = 0
    /\ Range(files_to_process) = SucceededNow \cup FailedNow

\* a run of two items has exited with 1: the first failed after its PDF was
\* written, the second at its conversion or before
C15_Witness ==
  /\ pc = "exited"
  /\ exit_code = 1
  /\ Len(files_to_process) = 2
  /\ FailedNow = Range(files_to_process)
  /\ pdfs # {}

(* C16 as stated: past the item loop the touched dates are the capture     *)
(* dates of the items whose merge completed in this run, and they are the  *)
(* dates whose daily document is not as it was when the run started.       *)
C16_TouchedAreModified ==
  LoopDone =>
    /\ processed_dates_for_commit = { DateStr(n) : n \in SucceededNow }
    /\ { DocOf(date) : date \in processed_dates_for_commit } = ModifiedNow

(* C16 amended: past the item loop the touched dates are the capture dates *)
(* of the items whose merge completed in this run; the document of a       *)
(* touched date exists and begins with what it held when the run started;  *)
(* a document that is not as it was is that of a touched date or that of   *)
(* an item that failed; when one item failed and another succeeded the set *)
(* holds the date of the second only and the exit code is 0; and a name is *)
(* appended to the ledger file only when it has not failed in this run and *)
(* its date is touched.                                                    *)
C16_TouchedAreMerged ==
  /\ [](LoopDone =>
         /\ processed_dates_for_commit = { DateStr(n) : n \in SucceededNow }
         /\ \A date \in processed_dates_for_commit :
              /\ IsFile(docs[DocOf(date)])
              /\ IsFile(h_docsAtStart[DocOf(date)]) =>
                   StartsWith(TextOf(docs[DocOf(date)]), TextOf(h_docsAtStart[DocOf(date)]))
         /\ \A d \in ModifiedNow :
              \/ d \in { DocOf(date) : date \in processed_dates_for_commit }
              \/ \E n \in FailedNow : StrpTime(DatePart(n)).ok /\ MdFilename(n) = d
         /\ \A a, b \in Range(files_to_process) :
              (FailedNow = {a} /\ SucceededNow = {b}) =>
                /\ processed_dates_for_commit = {DateStr(b)}
                /\ h_merges[b] > 0
                /\ Summarised => exit_code = 0)
  /\ [][ ledger' # ledger =>
           /\ filename \notin h_failedNow
           /\ DateStr(filename) \in processed_dates_for_commit' ]_vars

\* past the loop of a run over two dates: the merge of the first item failed
\* part-way and left its document changed, the second item was merged; only
\* the second date is touched
C16_Witness ==
  /\ LoopDone
  /\ Len(files_to_process) = 2
  /\ FailedNow = {files_to_process[1]}
  /\ SucceededNow = {files_to_process[2]}
  /\ Cardinality(ModifiedNow) = 2
  /\ processed_dates_for_commit = {DateStr(files_to_process[2])}

\* how often a git command was run
GitCount(cmd) == Cardinality({ i \in 1..Len(git_calls) : git_calls[i] = cmd })

(* C17: within a run git is called on one step only, the step after the    *)
(* item loop, when every item of the work set has been attempted and a     *)
(* date is touched; with no date touched no git command is run.  The       *)
(* commands are the repository check, then add, status, commit and push,   *)
(* each at most once and each only after the one before; the message of a  *)
(* commit that was created names every touched date; and whichever git     *)
(* command fails, the exit code is 0, as it is when all succeed.           *)
C17_CommitNotifier ==
  /\ [][ /\ (git_calls' # git_calls /\ runs_left' = runs_left)
            => /\ pc = "L301"
               /\ git_calls = << >>
               /\ h_attempted = files_to_process
               /\ processed_dates_for_commit # {}
         /\ (pc = "L301" /\ processed_dates_for_commit = {})
            => (git_calls' = << >> /\ commit_message' = NoFile /\ ~pushed')
       ]_vars
  /\ [](/\ StartsWith(<< "rev-parse", "add", "status", "commit", "push" >>, git_calls)
        /\ \A cmd \in Range(git_calls) : GitCount(cmd) = 1
        /\ git_calls # << >> => pc \in {"L326", "exited"}
        /\ IsFile(commit_message) =>
             /\ GitCount("commit") = 1
             /\ \A date \in processed_dates_for_commit :
                  Contains(TextOf(commit_message), date)
        /\ pushed => (IsFile(commit_message) /\ GitCount("push") = 1)
        /\ (Summarised /\ git_calls # << >>) => exit_code = 0
        /\ Summarised => exit_code = IF SucceededNow = {} THEN 1 ELSE 0)

\* a run that touched two dates has exited with 0 after its commit, naming
\* both dates, was created and the push failed
C17_Witness ==
  /\ Summarised
  /\ Cardinality(processed_dates_for_commit) = 2
  /\ git_calls = << "rev-parse", "add", "status", "commit", "push" >>
  /\ ~pushed
  /\ IsFile(commit_message)
  /\ \A date \in processed_dates_for_commit : Contains(TextOf(commit_message), date)
  /\ Len(TextOf(commit_message)) = 1 + 10 + 2 + 10
  /\ exit_code = 0

\* the files found by the scan whose name was a line of the ledger file,
\* spaces aside, when the run started
LedgeredAtLoad ==
  { n \in Range(all_note_files_in_dir) :
      \E i \in 1..Len(h_ledgerAtStart) : Strip(h_ledgerAtStart[i]) = n }

(* C18: in the summary of a run, attempted = succeeded + failed and        *)
(* discovered = already-processed + attempted, where already-processed is  *)
(* the number of files found by the scan that were in the ledger when it   *)
(* was loaded; succeeded and failed are the numbers of items that did.     *)
C18_SummaryConsistent ==
  Summarised =>
    LET c == TextOf(summary)
    IN  /\ c.attempted = c.succeeded + c.failed
        /\ c.found = c.already + c.attempted
        /\ c.already = Cardinality(LedgeredAtLoad)
        /\ c.found = Len(all_note_files_in_dir)
        /\ c.attempted = Len(files_to_process)
        /\ c.succeeded = Cardinality(SucceededNow)
        /\ c.failed = Cardinality(FailedNow)

\* a month between 1 and 12 and a day of that month, read off the digits
RealDate(d8) ==
  LET m == 10 * DigitVal(d8[5]) + DigitVal(d8[6])
      d == 10 * DigitVal(d8[7]) + DigitVal(d8[8])
  IN  m >= 1 /\ m <= 12 /\ d >= 1 /\ d <= 31

\* the names that match the pattern with digits that are no calendar date
BadDateNames == { n \in EntryNames : ReMatch(n) /\ ~RealDate(DatePart(n)) }

\* the names that match the pattern with digits that are a calendar date
DatedNames == { n \in EntryNames : ReMatch(n) /\ RealDate(DatePart(n)) }

\* the PDFs of those names
DatedPdfs == { PdfFilename(n) : n \in DatedNames }

(* C19: a name that matches the pattern but holds no calendar date never   *)
(* reaches the converter, the recognition or the merge, gives its name to  *)
(* no PDF and is never in the ledger file or the processed set; the step   *)
(* that takes it up fails it with the message of the parse handler,        *)
(* changes nothing on disk and goes to the next item, or to the commit     *)
(* step after the last; a run whose items all failed exits with 1; and     *)
(* every run that starts has such a file of the directory in its work set. *)
C19_BadDate ==
  /\ [](/\ BadDateNames # {}
        /\ pdfs \subseteq DatedPdfs
        /\ (InPipeline \/ JustMerged) => filename \notin BadDateNames
        /\ \A n \in BadDateNames :
             /\ n \notin Range(ledger)
             /\ n \notin already_processed_files
             /\ h_merges[n] = 0
             /\ (LoopDone /\ n \in Range(files_to_process)) => n \in FailedNow
        /\ (Summarised /\ Range(files_to_process) \subseteq BadDateNames) => exit_code = 1)
  /\ [][ /\ (pc = "L164" /\ filename \in BadDateNames)
            => /\ printed' = "parse_error"
               /\ filename \in h_failedNow'
               /\ UNCHANGED << dir, ledger, docs, pdfs, already_processed_files >>
               /\ IF idx < Len(files_to_process)
                  THEN pc' = "L164" /\ idx' = idx + 1
                  ELSE pc' = "L301"
         /\ runs_left' # runs_left
            => \A e \in dir :
                 (e.isfile /\ e.name \in BadDateNames) => e.name \in Range(files_to_process')
       ]_vars

\* a later run has exited with 1: its only item, the name with month 13,
\* failed as it did in the run before, in which another file was ledgered
C19_Witness ==
  /\ Summarised
  /\ runs_left < MaxRuns - 1
  /\ files_to_process = << FBadDate >>
  /\ FBadDate \in h_failedPrev
  /\ FBadDate \in h_failedNow
  /\ ledger # << >>
  /\ exit_code = 1
  /\ printed = "parse_error"
====
